---- MODULE Spec2Model ----
(***************************************************************************)
(* Model of EmployeeNOCGenerator (noc_generator.py): the label locator,    *)
(* the run-preserving rewriter, the whole-text fallback and the            *)
(* generate_noc traversal with its output file name.                       *)
(*                                                                         *)
(* A string is a sequence of one-character strings.  Offsets are Python's  *)
(* 0-based offsets: offset p lies before the character s[p+1].  A          *)
(* paragraph is the sequence of the texts of its runs; its flattened text  *)
(* is their concatenation.                                                 *)
(***************************************************************************)
EXTENDS Integers, Sequences, FiniteSets, TLC

VARIABLES
    template,     \* body paragraphs of the template file, as loaded
    paragraphs,   \* doc.paragraphs: the body paragraphs of the open document
    cells,        \* the paragraphs reached through doc.tables / rows / cells
    full_name,    \* generate_noc's arguments, as submitted
    job_title,
    department,
    pc,           \* position in generate_noc, or "call" / "returned" for a direct call
    para_i,       \* index of the paragraph the loops are at
    key_i,        \* index of the label the inner loop is at
    key,          \* label, value of the latest (paragraph, label) step or call
    value,
    before,       \* the paragraph's runs before that step
    after,        \* the paragraph's runs after that step
    replaced,     \* "pending", "skipped", "True" or "False": what the rewriter returned
    match,        \* result of the latest direct _find_label_match call
    output_path   \* the path generate_noc returns

vars == <<template, paragraphs, cells, full_name, job_title, department, pc,
          para_i, key_i, key, value, before, after, replaced, match, output_path>>

----------------------------------------------------------------------------
(* Strings *)

Uppers == <<"A","B","C","D","E","F","G","H","I","J","K","L","M","N","O","P","Q","R","S","T","U","V","W","X","Y","Z">>
Lowers == <<"a","b","c","d","e","f","g","h","i","j","k","l","m","n","o","p","q","r","s","t","u","v","w","x","y","z">>
Digits == <<"0","1","2","3","4","5","6","7","8","9">>

Range(s) == {s[i] : i \in 1..Len(s)}

Min(a, b) == IF a <= b THEN a ELSE b

\* Python's s[a:b] for 0 <= a, with b clipped to len(s)
Slice(s, a, b) == SubSeq(s, a + 1, Min(b, Len(s)))

\* Python's s[a:]
SliceFrom(s, a) == SubSeq(s, a + 1, Len(s))

UpperChars == Range(Uppers)
WordChars == Range(Uppers) \cup Range(Lowers) \cup Range(Digits) \cup {"_"}
SpaceChars == {" ", "\t", "\n"}
SafeChars == Range(Uppers) \cup Range(Lowers) \cup Range(Digits) \cup {".", "_", "-"}

\* the lower-case letter of each upper-case letter
LowerOf == [c \in UpperChars |-> Lowers[CHOOSE i \in 1..Len(Uppers) : Uppers[i] = c]]

\* str.lower() of one character
Lower(c) == IF c \in UpperChars THEN LowerOf[c] ELSE c

\* str.lower()
LowerStr(s) == [i \in 1..Len(s) |-> Lower(s[i])]

\* regex \w
IsWord(c) == c \in WordChars

\* regex \s, and the characters str.strip() removes
IsSpace(c) == c \in SpaceChars

\* the flag re.IGNORECASE: two characters match when they agree up to case
CaseEq(c, d) == Lower(c) = Lower(d)

\* `needle in haystack`
Contains(haystack, needle) ==
    \E p \in 0..(Len(haystack) - Len(needle)) :
        Slice(haystack, p, p + Len(needle)) = needle

\* str.find('\n', from): offset of the first newline at or after `from`, or -1
FindNewline(text, from) ==
    IF \E p \in from..(Len(text) - 1) : text[p + 1] = "\n"
    THEN CHOOSE p \in from..(Len(text) - 1) :
             /\ text[p + 1] = "\n"
             /\ \A q \in from..(p - 1) : text[q + 1] # "\n"
    ELSE -1

RECURSIVE Flatten(_)
\* para.text: the concatenation of the run texts, in order
Flatten(runs) == IF runs = <<>> THEN <<>> ELSE Head(runs) \o Flatten(Tail(runs))

\* `para.text = text`: every run is dropped and one run holding the text is added
SetParagraphText(text) == <<text>>

----------------------------------------------------------------------------
(* The labels *)

FullNameKey == <<"F","u","l","l"," ","N","a","m","e">>
JobTitleKey == <<"J","o","b"," ","T","i","t","l","e">>
DepartmentKey == <<"D","e","p","a","r","t","m","e","n","t">>

\* the keys of `replacements`, in insertion order
Keys == <<FullNameKey, JobTitleKey, DepartmentKey>>

----------------------------------------------------------------------------
(* _find_label_match: re.compile(rf'\b{key}\b\s*:', re.IGNORECASE).search(text) *)

\* regex \b at offset p
WordBoundary(text, p) ==
    (p > 0 /\ IsWord(text[p])) # (p < Len(text) /\ IsWord(text[p + 1]))

\* the escaped key, matched at offset p under IGNORECASE
KeyAt(text, key_, p) ==
    /\ p + Len(key_) <= Len(text)
    /\ \A i \in 1..Len(key_) : CaseEq(text[p + i], key_[i])

RECURSIVE SkipSpaces(_, _)
\* greedy \s* from offset p: the offset of the first non-space at or after p
SkipSpaces(text, p) ==
    IF p < Len(text) /\ IsSpace(text[p + 1]) THEN SkipSpaces(text, p + 1) ELSE p

NoMatch == [found |-> FALSE, start |-> 0, end |-> 0]

\* LabelPatternAt without the \b in front of the key
LabelPatternAtNoBoundary(text, key_, p) ==
    IF /\ KeyAt(text, key_, p)
       /\ WordBoundary(text, p + Len(key_))
    THEN LET q == SkipSpaces(text, p + Len(key_))
         IN  IF q < Len(text) /\ text[q + 1] = ":" THEN q + 1 ELSE -1
    ELSE -1

\* the end offset of a match of the pattern starting at offset p, or -1
LabelPatternAt(text, key_, p) ==
    IF /\ WordBoundary(text, p)
       /\ KeyAt(text, key_, p)
       /\ WordBoundary(text, p + Len(key_))
    THEN LET q == SkipSpaces(text, p + Len(key_))
         IN  IF q < Len(text) /\ text[q + 1] = ":" THEN q + 1 ELSE -1
    ELSE -1

RECURSIVE SearchFrom(_, _, _)
\* pattern.search: the leftmost offset at which the pattern matches
SearchFrom(text, key_, p) ==
    IF p > Len(text) THEN NoMatch
    ELSE LET end == LabelPatternAt(text, key_, p)
         IN  IF end # -1
             THEN [found |-> TRUE, start |-> p, end |-> end]
             ELSE SearchFrom(text, key_, p + 1)

find_label_match(text, key_) == SearchFrom(text, key_, 0)

----------------------------------------------------------------------------
(* _replace_field_in_paragraph_runs *)

\* Rest with the newline that ends the value's line lost
RestDropsNewline(full_text, label_end) ==
    LET next_nl == FindNewline(full_text, label_end)
    IN  IF next_nl = -1
        THEN SliceFrom(full_text, label_end)
        ELSE SliceFrom(full_text, next_nl + 1)

\* rest: what is kept after the value
Rest(full_text, label_end) ==
    LET next_nl == FindNewline(full_text, label_end)
    IN  IF next_nl = -1
        THEN SliceFrom(full_text, label_end)
        ELSE SliceFrom(full_text, next_nl)

\* desired_text = f"{left_part} {value}{rest}"
DesiredText(full_text, label_end, value_) ==
    Slice(full_text, 0, label_end) \o <<" ">> \o value_ \o Rest(full_text, label_end)

RECURSIVE SumLen(_, _)
\* the sum of the lengths of the first n runs
SumLen(runs, n) == IF n = 0 THEN 0 ELSE SumLen(runs, n - 1) + Len(runs[n])

\* Redistribute with the runs left without characters removed, not emptied
RedistributeDroppingEmptied(runs, desired_text) ==
    LET kept == {i \in 1..Len(runs) : SumLen(runs, i - 1) < Len(desired_text)}
    IN  [i \in 1..Cardinality(kept) |->
            Slice(desired_text, SumLen(runs, i - 1),
                  Min(SumLen(runs, i), Len(desired_text)))]

\* the loop over the runs: run i gets the slice of desired_text at its slot
Redistribute(runs, desired_text) ==
    [i \in 1..Len(runs) |->
        LET pos == SumLen(runs, i - 1)
            slot_len == Len(runs[i])
        IN  IF pos >= Len(desired_text)
            THEN <<>>
            ELSE Slice(desired_text, pos, Min(pos + slot_len, Len(desired_text)))]

\* AppendExtra with the surplus put on the first run
AppendExtraToFirst(new_runs, desired_text, total_orig_len) ==
    IF Len(desired_text) > total_orig_len
    THEN [new_runs EXCEPT ![1] = @ \o SliceFrom(desired_text, total_orig_len)]
    ELSE new_runs

\* what lies beyond the combined original run text goes to the last run
AppendExtra(new_runs, desired_text, total_orig_len) ==
    IF Len(desired_text) > total_orig_len
    THEN [new_runs EXCEPT ![Len(new_runs)] = @ \o SliceFrom(desired_text, total_orig_len)]
    ELSE new_runs

\* the paragraph's runs once desired_text is written back
WriteBack(runs, desired_text) ==
    IF runs = <<>>
    THEN SetParagraphText(desired_text)
    ELSE AppendExtra(Redistribute(runs, desired_text), desired_text,
                     SumLen(runs, Len(runs)))

\* returns [ret, runs]: the returned flag and the paragraph's runs afterwards
replace_field_in_paragraph_runs(runs, key_, value_) ==
    LET full_text == Flatten(runs)
        m == find_label_match(full_text, key_)
    IN  IF ~m.found
        THEN [ret |-> FALSE, runs |-> runs]
        ELSE [ret |-> TRUE,
              runs |-> WriteBack(runs, DesiredText(full_text, m.end, value_))]

----------------------------------------------------------------------------
\* _replace_fields_in_text, for one key: the pattern is the key (group 1),
\* then \s* and a colon, then \s* and everything up to the next newline,
\* compiled with re.IGNORECASE and applied with pattern.sub

\* the end offset of a match of the fallback pattern starting at p, or -1
FieldPatternAt(text, key_, p) ==
    IF KeyAt(text, key_, p)
    THEN LET q == SkipSpaces(text, p + Len(key_))
         IN  IF q < Len(text) /\ text[q + 1] = ":"
             THEN LET r == SkipSpaces(text, q + 1)
                      nl == FindNewline(text, r)
                  IN  IF nl = -1 THEN Len(text) ELSE nl
             ELSE -1
    ELSE -1

RECURSIVE SubFrom(_, _, _, _)
\* pattern.sub from offset p on: every non-overlapping match, left to right,
\* becomes f"{m.group(1)}: {value}"
SubFrom(text, key_, value_, p) ==
    IF p >= Len(text) THEN <<>>
    ELSE LET end == FieldPatternAt(text, key_, p)
         IN  IF end # -1
             THEN Slice(text, p, p + Len(key_)) \o <<":", " ">> \o value_
                  \o SubFrom(text, key_, value_, end)
             ELSE <<text[p + 1]>> \o SubFrom(text, key_, value_, p + 1)

replace_fields_in_text(text, key_, value_) == SubFrom(text, key_, value_, 0)

----------------------------------------------------------------------------
(* generate_noc *)

RECURSIVE LStrip(_)
LStrip(s) == IF s # <<>> /\ IsSpace(Head(s)) THEN LStrip(Tail(s)) ELSE s

RECURSIVE RStrip(_)
RStrip(s) ==
    IF s # <<>> /\ IsSpace(s[Len(s)]) THEN RStrip(SubSeq(s, 1, Len(s) - 1)) ELSE s

\* str.strip()
Strip(s) == RStrip(LStrip(s))

\* replacements[key]
Replacement(k, fn, jt, dp) ==
    IF k = 1 THEN Strip(fn) ELSE IF k = 2 THEN Strip(jt) ELSE Strip(dp)

\* the body of the loop over replacements.items(), for one paragraph and key:
\* [ret, runs] with ret "skipped", "True" (rewritten in the runs) or "False"
\* (the whole-text fallback was taken)
ProcessLabel(runs, key_, value_) ==
    IF Contains(LowerStr(Flatten(runs)), LowerStr(key_))
    THEN LET r == replace_field_in_paragraph_runs(runs, key_, value_)
         IN  IF r.ret
             THEN [ret |-> "True", runs |-> r.runs]
             ELSE [ret |-> "False",
                   runs |-> SetParagraphText(
                                replace_fields_in_text(Flatten(runs), key_, value_))]
    ELSE [ret |-> "skipped", runs |-> runs]

\* the character class [A-Za-z0-9._-]
IsSafeChar(c) == c \in SafeChars

RECURSIVE SkipUnsafe(_)
\* the string after its leading run of characters outside the class
SkipUnsafe(s) == IF s # <<>> /\ ~IsSafeChar(Head(s)) THEN SkipUnsafe(Tail(s)) ELSE s

\* SubUnsafe with the pattern [^A-Za-z0-9._-], without the +
SubUnsafeEach(s) == [i \in 1..Len(s) |-> IF IsSafeChar(s[i]) THEN s[i] ELSE "_"]

RECURSIVE SubUnsafe(_)
\* re.sub(r'[^A-Za-z0-9._-]+', '_', s)
SubUnsafe(s) ==
    IF s = <<>> THEN <<>>
    ELSE IF IsSafeChar(Head(s))
         THEN <<Head(s)>> \o SubUnsafe(Tail(s))
         ELSE <<"_">> \o SubUnsafe(SkipUnsafe(s))

Unknown == <<"u","n","k","n","o","w","n">>

\* safe_name
SafeName(fn) == IF SubUnsafe(Strip(fn)) = <<>> THEN Unknown ELSE SubUnsafe(Strip(fn))

OutputDir == <<"g","e","n","e","r","a","t","e","d","_","n","o","c">>
NocPrefix == <<"N","O","C","_">>
DocxSuffix == <<".","d","o","c","x">>

\* os.path.join(output_dir, f"NOC_{safe_name}.docx")
OutputPath(fn) == OutputDir \o <<"/">> \o NocPrefix \o SafeName(fn) \o DocxSuffix

\* one (paragraph, key) step of the loop over doc.paragraphs
BodyStep ==
    /\ pc = "body"
    /\ para_i <= Len(paragraphs)
    /\ LET k == Keys[key_i]
           v == Replacement(key_i, full_name, job_title, department)
           r == ProcessLabel(paragraphs[para_i], k, v)
       IN  /\ paragraphs' = [paragraphs EXCEPT ![para_i] = r.runs]
           /\ key' = k
           /\ value' = v
           /\ before' = paragraphs[para_i]
           /\ after' = r.runs
           /\ replaced' = r.ret
    /\ key_i' = IF key_i < Len(Keys) THEN key_i + 1 ELSE 1
    /\ para_i' = IF key_i < Len(Keys) THEN para_i ELSE para_i + 1
    /\ UNCHANGED <<template, cells, full_name, job_title, department, pc, match,
                   output_path>>

\* the loop over doc.paragraphs is exhausted
BodyDone ==
    /\ pc = "body"
    /\ para_i > Len(paragraphs)
    /\ pc' = "tables"
    /\ para_i' = 1
    /\ UNCHANGED <<template, paragraphs, cells, full_name, job_title, department,
                   key_i, key, value, before, after, replaced, match, output_path>>

\* one (paragraph, key) step of the loops over the tables' cells
TableStep ==
    /\ pc = "tables"
    /\ para_i <= Len(cells)
    /\ LET k == Keys[key_i]
           v == Replacement(key_i, full_name, job_title, department)
           r == ProcessLabel(cells[para_i], k, v)
       IN  /\ cells' = [cells EXCEPT ![para_i] = r.runs]
           /\ key' = k
           /\ value' = v
           /\ before' = cells[para_i]
           /\ after' = r.runs
           /\ replaced' = r.ret
    /\ key_i' = IF key_i < Len(Keys) THEN key_i + 1 ELSE 1
    /\ para_i' = IF key_i < Len(Keys) THEN para_i ELSE para_i + 1
    /\ UNCHANGED <<template, paragraphs, full_name, job_title, department, pc, match,
                   output_path>>

\* the loops over the tables are exhausted
TablesDone ==
    /\ pc = "tables"
    /\ para_i > Len(cells)
    /\ pc' = "save"
    /\ UNCHANGED <<template, paragraphs, cells, full_name, job_title, department,
                   para_i, key_i, key, value, before, after, replaced, match,
                   output_path>>

\* the output path is built, the document saved and the path returned
Save ==
    /\ pc = "save"
    /\ output_path' = OutputPath(full_name)
    /\ pc' = "done"
    /\ UNCHANGED <<template, paragraphs, cells, full_name, job_title, department,
                   para_i, key_i, key, value, before, after, replaced, match>>

Next == BodyStep \/ BodyDone \/ TableStep \/ TablesDone \/ Save

----------------------------------------------------------------------------
(* Direct calls of the two helpers, on the paragraph paragraphs[1] *)

CallRewrite ==
    /\ pc = "call"
    /\ LET r == replace_field_in_paragraph_runs(paragraphs[1], key, value)
       IN  /\ paragraphs' = <<r.runs>>
           /\ before' = paragraphs[1]
           /\ after' = r.runs
           /\ replaced' = IF r.ret THEN "True" ELSE "False"
    /\ pc' = "returned"
    /\ UNCHANGED <<template, cells, full_name, job_title, department, para_i, key_i,
                   key, value, match, output_path>>

NextRewrite == CallRewrite

CallFind ==
    /\ pc = "call"
    /\ match' = find_label_match(Flatten(paragraphs[1]), key)
    /\ pc' = "returned"
    /\ UNCHANGED <<template, paragraphs, cells, full_name, job_title, department,
                   para_i, key_i, key, value, before, after, replaced, output_path>>

NextLocate == CallFind

----------------------------------------------------------------------------
(* The inputs *)

MaxRuns == 2
MaxSegs == 4
MaxNameLen == 4

RECURSIVE SplitsOf(_, _)
\* every way to cut text into k runs, empty runs included
SplitsOf(text, k) ==
    IF k = 1 THEN {<<text>>}
    ELSE UNION {{<<Slice(text, 0, c)>> \o r : r \in SplitsOf(SliceFrom(text, c), k - 1)} :
                    c \in 0..Len(text)}

\* the paragraphs whose flattened text is text
ParagraphsOf(text) ==
    UNION {SplitsOf(text, k) : k \in 1..MaxRuns}
        \cup (IF text = <<>> THEN {<<>>} ELSE {})

RECURSIVE StringsOver(_, _)
\* the concatenations of at most n members of segs
StringsOver(segs, n) ==
    IF n = 0 THEN {<<>>}
    ELSE LET shorter == StringsOver(segs, n - 1)
         IN  shorter \cup {a \o b : a \in shorter, b \in segs}

UpperJobTitle == <<"J","O","B"," ","T","I","T","L","E">>
LowerJobTitle == <<"j","o","b"," ","t","i","t","l","e">>

\* texts for the rewriter: prefix, label, colon, old value, later lines
RewriteTexts ==
    {pre \o lab \o gap \o val \o rest :
        pre \in {<<>>, <<"x">>, <<"x", " ">>},
        lab \in {FullNameKey, UpperJobTitle},
        gap \in {<<":">>, <<" ", ":">>, <<>>},
        val \in {<<>>, <<" ">>, <<" ", "y">>},
        rest \in {<<>>, <<"\n">> \o JobTitleKey \o <<":", "\n">>}}

RewriteValues == {<<>>, <<"v">>, <<"A", "r", "j", "u", "n", " ", "K">>}

LocateSegs ==
    {JobTitleKey, UpperJobTitle, LowerJobTitle, DepartmentKey,
     <<":">>, <<" ">>, <<"\n">>, <<"s">>}

NameChars == {<<"A">>, <<"/">>, <<" ">>, <<".">>}

InitCommon ==
    /\ template = paragraphs
    /\ full_name = <<>>
    /\ job_title = <<>>
    /\ department = <<>>
    /\ para_i = 1
    /\ key_i = 1
    /\ before = <<>>
    /\ after = <<>>
    /\ replaced = "pending"
    /\ match = NoMatch
    /\ output_path = <<>>

InitRewrite ==
    /\ \E t \in RewriteTexts : \E p \in ParagraphsOf(t) : paragraphs = <<p>>
    /\ cells = <<>>
    /\ key \in Range(Keys)
    /\ value \in RewriteValues
    /\ pc = "call"
    /\ InitCommon

SpecRewrite == InitRewrite /\ [][NextRewrite]_vars

InitLocate ==
    /\ \E t \in StringsOver(LocateSegs, MaxSegs) : paragraphs = <<<<t>>>>
    /\ cells = <<>>
    /\ key \in Range(Keys)
    /\ value = <<>>
    /\ pc = "call"
    /\ InitCommon

SpecLocate == InitLocate /\ [][NextLocate]_vars

----------------------------------------------------------------------------
(* Whole runs of generate_noc *)

NameThenDepartment == FullNameKey \o <<":", "\n">> \o DepartmentKey \o <<":", "\n">>
NameThenJobTitle == FullNameKey \o <<":", "\n">> \o JobTitleKey \o <<":", "\n">>
SubDepartmentText == <<"S", "u", "b", "D", "e", "p", "a", "r", "t", "m", "e", "n", "t", ":", " ", "X">>
ProseText == <<"t", "h", "e", " ", "d", "e", "p", "a", "r", "t", "m", "e", "n", "t", " ", "i", "s", " ", "b", "i", "g">>
DepartmentFilled == <<"D", "e", "p", "a", "r", "t", "m", "e", "n", "t", ":", " ", "E", "n", "g", "i", "n", "e", "e", "r", "i", "n", "g">>
GreetingText == <<"H", "e", "l", "l", "o">>

\* the texts of the template paragraphs
TemplateTexts ==
    {NameThenDepartment, NameThenJobTitle, SubDepartmentText, ProseText,
     DepartmentFilled, FullNameKey \o <<":", " ">>, GreetingText, <<>>}

\* the texts of the paragraphs in table cells
CellTexts == {DepartmentFilled, SubDepartmentText, JobTitleKey \o <<":">>}

LabelLikeName == <<"D", "e", "p", "a", "r", "t", "m", "e", "n", "t", ":", " ", "x">>

FullNames == {<<"A", "l">>, <<" ", "A", "l", " ">>, LabelLikeName}
JobTitles == {<<"D", "e", "v">>}
Departments == {<<"E", "n", "g">>, <<>>}

Init ==
    /\ paragraphs \in {<<>>} \cup {<<p>> : p \in UNION {ParagraphsOf(t) : t \in TemplateTexts}}
    /\ cells \in {<<>>} \cup {<<<<t>>>> : t \in CellTexts}
    /\ full_name \in FullNames
    /\ job_title \in JobTitles
    /\ department \in Departments
    /\ template = paragraphs
    /\ pc = "body"
    /\ para_i = 1
    /\ key_i = 1
    /\ key = <<>>
    /\ value = <<>>
    /\ before = <<>>
    /\ after = <<>>
    /\ replaced = "pending"
    /\ match = NoMatch
    /\ output_path = <<>>

Spec == Init /\ [][Next]_vars

\* the documents of the runs that vary the submitted name
NameDocs ==
    {[body |-> <<<<NameThenJobTitle>>>>, cells |-> <<<<DepartmentFilled>>>>],
     [body |-> <<<<FullNameKey, <<":", " ">>>>>>, cells |-> <<>>]}

InitName ==
    /\ \E d \in NameDocs : paragraphs = d.body /\ cells = d.cells
    /\ full_name \in StringsOver(NameChars, MaxNameLen)
    /\ job_title \in JobTitles
    /\ department = <<"E", "n", "g">>
    /\ template = paragraphs
    /\ pc = "body"
    /\ para_i = 1
    /\ key_i = 1
    /\ key = <<>>
    /\ value = <<>>
    /\ before = <<>>
    /\ after = <<>>
    /\ replaced = "pending"
    /\ match = NoMatch
    /\ output_path = <<>>

SpecName == InitName /\ [][Next]_vars

----------------------------------------------------------------------------
(* Properties of a direct call of _replace_field_in_paragraph_runs         *)
(* (SpecRewrite)                                                           *)

Returned == pc = "returned"

\* the colon-end offset of the label in the text the call was given
ColonEnd == find_label_match(Flatten(before), key).end

\* C1: a paragraph whose flattened text is exactly the label, a colon and one
\* space, however split into runs, is rewritten (True is returned) to exactly
\* the label, colon, space and the value, with nothing before or after it.
C1_LabelOnlyBecomesLabelValue ==
    (Returned /\ Flatten(before) = key \o <<":", " ">>)
        => /\ replaced = "True"
           /\ Flatten(after) = key \o <<":", " ">> \o value

\* C2: the value region is fully replaced: the text becomes t[0:c], a space,
\* the value and r, where r is t from the first newline at or after c, and r
\* is empty when there is no such newline.
C2_ValueRegionReplaced ==
    (Returned /\ replaced = "True")
        => LET t == Flatten(before)
               c == ColonEnd
               r == IF \E n \in c..(Len(t) - 1) : t[n + 1] = "\n"
                    THEN SliceFrom(t, FindNewline(t, c))
                    ELSE <<>>
           IN  Flatten(after) = Slice(t, 0, c) \o <<" ">> \o value \o r

\* C3: rewriting one label leaves the other lines untouched: with the label
\* matched at colon-end c and a newline at offset n >= c, the text afterwards
\* starts with t[0:c] and ends with t[n:], for every value and every split.
C3_OtherLinesUntouched ==
    (Returned /\ replaced = "True")
        => LET t == Flatten(before)
               a == Flatten(after)
               c == ColonEnd
           IN  \A n \in c..(Len(t) - 1) :
                   t[n + 1] = "\n"
                       => /\ Len(a) >= c + (Len(t) - n)
                          /\ Slice(a, 0, c) = Slice(t, 0, c)
                          /\ SliceFrom(a, Len(a) - (Len(t) - n)) = SliceFrom(t, n)

\* C3 witness: a paragraph of several runs with a later line was rewritten
\* with a non-empty value and its text changed
C3_Witness ==
    /\ Returned /\ replaced = "True"
    /\ Len(before) >= 2
    /\ value # <<>>
    /\ Flatten(after) # Flatten(before)
    /\ \E n \in ColonEnd..(Len(Flatten(before)) - 1) : Flatten(before)[n + 1] = "\n"

\* C4: the number of runs is the same after the call as before, for any
\* paragraph with at least one run; a run whose slot starts at or beyond the
\* end of the desired text is kept, with empty text.
C4_RunCountInvariant ==
    (Returned /\ Len(before) >= 1)
        => /\ Len(after) = Len(before)
           /\ \A i \in 1..Len(before) :
                  SumLen(before, i - 1) >= Len(Flatten(after)) => after[i] = <<>>

\* C4 witness: the desired text shrank and a run that held text was emptied
C4_Witness ==
    /\ Returned /\ replaced = "True"
    /\ Len(before) >= 2
    /\ \E i \in 1..Len(before) :
           /\ before[i] # <<>>
           /\ SumLen(before, i - 1) >= Len(Flatten(after))
           /\ after[i] = <<>>

\* C5: the concatenation of the run texts is the desired text; and when the
\* desired text is at least as long as the sum S of the original run lengths,
\* every run but the last keeps its original length and the last run holds
\* its own slot followed by desiredText[S:].
C5_SlotLengthsPreserved ==
    (Returned /\ replaced = "True")
        => LET d == DesiredText(Flatten(before), ColonEnd, value)
               n == Len(before)
               S == SumLen(before, n)
           IN  /\ Flatten(after) = d
               /\ (n >= 1 /\ Len(d) >= S)
                      => /\ Len(after) = n
                         /\ \A i \in 1..(n - 1) : Len(after[i]) = Len(before[i])
                         /\ after[n] = Slice(d, S - Len(before[n]), S) \o SliceFrom(d, S)

\* C5 witness: the desired text is longer than the original runs together,
\* and the last of several runs, which held text, took the surplus
C5_Witness ==
    /\ Returned /\ replaced = "True"
    /\ Len(before) >= 2
    /\ before[Len(before)] # <<>>
    /\ before[1] # <<>>
    /\ Len(Flatten(after)) > SumLen(before, Len(before))
    /\ Len(after[Len(after)]) > Len(before[Len(before)])

----------------------------------------------------------------------------
(* Properties of a direct call of _find_label_match (SpecLocate)           *)

\* the label occurs at offset p of t: the same letters up to case, no word
\* character before or after it
LabelOccursAt(t, lab, p) ==
    /\ p + Len(lab) <= Len(t)
    /\ LowerStr(Slice(t, p, p + Len(lab))) = LowerStr(lab)
    /\ p = 0 \/ t[p] \notin WordChars
    /\ p + Len(lab) = Len(t) \/ t[p + Len(lab) + 1] \notin WordChars

\* offset j holds a colon that only white space separates from offset q
ColonAfter(t, q, j) ==
    /\ j \in q..(Len(t) - 1)
    /\ t[j + 1] = ":"
    /\ \A k \in q..(j - 1) : t[k + 1] \in SpaceChars

\* the offsets at which the label occurs, followed by white space and a colon
LabelOffsets(t, lab) ==
    {p \in 0..Len(t) :
        LabelOccursAt(t, lab, p) /\ \E j \in 0..Len(t) : ColonAfter(t, p + Len(lab), j)}

\* C6: _find_label_match finds a match exactly when the text holds the label,
\* compared without regard to case, not preceded or followed by a word
\* character, followed by optional white space and a colon; the match is the
\* first such occurrence and ends immediately after that colon.
C6_LabelMatch ==
    Returned
        => LET t == Flatten(paragraphs[1])
               offs == LabelOffsets(t, key)
           IN  /\ match.found <=> offs # {}
               /\ match.found
                      => /\ match.start \in offs
                         /\ \A p \in offs : match.start <= p
                         /\ ColonAfter(t, match.start + Len(key), match.end - 1)

\* C6 witness: "job title  :" was matched for the label "Job Title", up to
\* the offset after its colon
C6_Witness ==
    /\ Returned
    /\ key = JobTitleKey
    /\ Flatten(paragraphs[1]) = LowerJobTitle \o <<" ", " ", ":">>
    /\ match.found
    /\ match.end = 12

----------------------------------------------------------------------------
(* Properties of generate_noc (Spec, SpecName)                             *)

\* the positions of t that sanitizing keeps: a safe character, or the first
\* character of a run of unsafe ones
KeptPositions(t) ==
    {i \in 1..Len(t) : t[i] \in SafeChars \/ i = 1 \/ t[i - 1] \in SafeChars}

\* the j-th smallest member of a set of numbers
Nth(set, j) == CHOOSE i \in set : Cardinality({k \in set : k <= i}) = j

\* t with every maximal run of unsafe characters replaced by one underscore
RunsCollapsed(t) ==
    [j \in 1..Cardinality(KeptPositions(t)) |->
        LET i == Nth(KeptPositions(t), j)
        IN  IF t[i] \in SafeChars THEN t[i] ELSE "_"]

\* t with every unsafe character replaced by one underscore
EachReplaced(t) == [i \in 1..Len(t) |-> IF t[i] \in SafeChars THEN t[i] ELSE "_"]

PathOf(s) ==
    OutputDir \o <<"/">> \o NocPrefix \o (IF s = <<>> THEN Unknown ELSE s) \o DocxSuffix

\* C7 (as amended): the file name is "NOC_" + s + ".docx", where s is the
\* trimmed full name with every maximal run of characters outside
\* [A-Za-z0-9._-] replaced by one underscore, and "unknown" when that is empty.
C7_FileName ==
    pc = "done" => output_path = PathOf(RunsCollapsed(Strip(full_name)))

\* C7 (as claimed): s is the trimmed full name with every single character
\* outside [A-Za-z0-9._-] replaced by one underscore, so as long as the
\* trimmed name, and "unknown" when that is empty.
C7_OneUnderscorePerCharacter ==
    pc = "done" => output_path = PathOf(EachReplaced(Strip(full_name)))

\* C7 witness: a name with two unsafe characters in a row between safe ones
\* was turned into a path
C7_Witness ==
    /\ pc = "done"
    /\ LET t == Strip(full_name)
       IN  \E i \in 2..(Len(t) - 2) :
               /\ t[i - 1] \in SafeChars
               /\ t[i] \notin SafeChars
               /\ t[i + 1] \notin SafeChars
               /\ t[i + 2] \in SafeChars

\* a (paragraph, label) step of the traversal has been taken
Stepped == replaced # "pending"

\* C8: a label for which the locator finds no match in a paragraph is skipped
\* for that paragraph: the step leaves the paragraph's flattened text
\* unchanged.
C8_AbsentLabelSkipped ==
    (Stepped /\ ~find_label_match(Flatten(before), key).found)
        => Flatten(after) = Flatten(before)

\* C9: no step of the traversal extends or shortens the run sequence of a
\* paragraph that had at least one run.
C9_RunSequencePreserved ==
    (Stepped /\ Len(before) >= 1) => Len(after) = Len(before)

\* C10: a value written for an earlier label is never matched as a later
\* label: a paragraph "Full Name:" / later label on two lines ends with each
\* value on its own line, whatever the full name is.
C10_LaterLabelFillsOwnLine ==
    pc = "done"
        => \A i \in 1..Len(template) : \A k \in 2..Len(Keys) :
               Flatten(template[i]) = FullNameKey \o <<":", "\n">> \o Keys[k] \o <<":", "\n">>
                   => Flatten(paragraphs[i]) =
                          FullNameKey \o <<":", " ">> \o Strip(full_name) \o <<"\n">>
                          \o Keys[k] \o <<":", " ">>
                          \o Replacement(k, full_name, job_title, department) \o <<"\n">>

====
